---- MODULE Spec2Model ----
(***************************************************************************)
(* Solution-submission consensus engine of the distributed optimization   *)
(* solver platform: ServerNode (network/server_node.py) together with the *)
(* request handlers of the web server (network/central_node_server.py).   *)
(*                                                                         *)
(* Threads.  Every request handler is an `async def` without any await,   *)
(* so a handler runs to completion on the event loop before the next      *)
(* handler starts: handlers never interleave with each other.  Every      *)
(* submission has its own monitor thread (_manage_validation_phase) with  *)
(* its own SQLite connection; a monitor thread interleaves with the       *)
(* handlers and with the other monitors between any two of its store or   *)
(* file operations.  A store statement or a committed transaction is one   *)
(* atomic step.                                                            *)
(*                                                                         *)
(* Time is counted in units of the 15 s grace window of                    *)
(* get_solution_submission_id; a validation phase lasts two units.         *)
(***************************************************************************)
EXTENDS Integers, FiniteSets, Sequences, Bags, TLC

\* ---------------------------------------------------------------- bounds
MaxAgents == 3      \* calls of register_agent_to_platform
MaxSubs   == 3      \* solution submissions uploaded
MaxObj    == 2      \* distinct objective values agents report
MaxTime   == 4      \* clock ticks
MaxFaults == 1      \* store / file / runtime failures injected in one run
MaxLoad   == 4      \* registrations plus uploads served in one run
MaxThreads == 2     \* threads calling solve_problem_instance of one agent

\* ------------------------------------------------------- program constants
SOLUTION_VALIDATION_DURATION          == 2
GRACE_WINDOW                          == 1
SUCCESSFUL_SOLUTION_SUBMISSION_REWARD == 50
SOLUTION_VALIDATION_REWARD            == 10
CONSENSUS_RATIO_NUM                   == 1
CONSENSUS_RATIO_DEN                   == 2
REWARD_BUDGET                         == 60

NULL == 0 - 1       \* SQL NULL / Python None in a numeric column

Instances  == {"p1"}
SubIds     == 1..MaxSubs
AgentIds   == 1..MaxAgents
Objectives == 1..MaxObj
Tri        == {"unset", "true", "false"}   \* all_solutions.accepted
Threads    == 1..MaxThreads

VARIABLES
    now,                \* datetime.now()
    agent_counter,      \* ServerNode.agent_counter
    agent_nodes,        \* table agent_nodes: set of agent ids
    problem_instances,  \* table problem_instances: name -> row
    all_solutions,      \* table all_solutions: id -> row (rows 1..Len)
    validations,        \* table active_solutions_submissions_validations: bag of rows
    best_solutions,     \* table best_solutions: name -> solution_id (0: no row)
    best_file,          \* best_solutions_dir/<name>.sol: id of the payload it holds (0: none)
    active_files,       \* active_solutions_dir: ids whose <id>.sol exists
    pc,                 \* monitor thread of each submission: position
    loc,                \* monitor thread of each submission: local variables
    req,                \* the request handler running on the event loop
    faults,             \* failures injected so far
    entered,            \* per submission: number of calls of _finalize_validation
    late,               \* history: submissions created when the instance's posted
                        \* reward had already reached its budget
    clients,            \* the AgentNode objects: agent id -> fields
    solver_pc,          \* threads running AgentNode.solve_problem_instance: the
                        \* agent object and the position in the function
    answered,           \* history: per submission, the last status answer given
                        \* for it after it was finalized
    collected,          \* history: per submission, how often its submitter added
                        \* its reward to reward_accumulated
    tx                  \* per SQLite connection: the statements executed on it
                        \* and not yet committed

vars == <<now, agent_counter, agent_nodes, problem_instances, all_solutions,
          validations, best_solutions, best_file, active_files, pc, loc, req,
          faults, entered, late, clients, solver_pc, answered, collected, tx>>

agents_v  == <<agent_counter, agent_nodes>>
files_v   == <<best_file, active_files>>
monitor_v == <<pc, loc, entered>>
client_v  == <<clients, solver_pc, answered, collected>>
outer_v   == <<client_v, tx>>

\* ------------------------------------------------------------- helpers
RECURSIVE SumOver(_, _)
SumOver(f, S) ==
    IF S = {} THEN 0
    ELSE LET x == CHOOSE y \in S : TRUE IN f[x] + SumOver(f, S \ {x})

Rows(b) == BagToSet(b)

\* rows of a bag of vote rows that belong to submission s
RowsOf(b, s) == {r \in Rows(b) : r.solution_submission_id = s}

\* the bag of the rows of b that belong to submission s
BagOf(b, s) == [r \in RowsOf(b, s) |-> b[r]]

\* number of rows (with multiplicity) of bag b in the set R
CountRows(b, R) == SumOver([r \in R |-> CopiesIn(r, b)], R)

\* SUM(reward) over the rows R of bag b
SumReward(b, R) == SumOver([r \in R |-> r.reward * CopiesIn(r, b)], R)

Exists(s) == s \in DOMAIN all_solutions

\* registrations and uploads served so far
Load == agent_counter + Len(all_solutions)

MayFail == faults < MaxFaults

IdleReq == [op |-> "idle"]

NoLocals == [results |-> EmptyBag, accepted |-> FALSE, accepted_count |-> 0,
             rejected_count |-> 0, objective_value |-> NULL,
             reward_accumulated |-> 0, deactivate |-> FALSE, reached |-> FALSE]

\* ------------------------------------------------------------------ Init
\* the connections of DatabaseManager.thread_local: one of the thread that
\* serves the requests (0) and one of the monitor thread of each submission
Connections == {0} \cup SubIds

\* sqlite3.connect: a new connection has no open transaction
InitConnections == tx = [c \in Connections |-> <<>>]

\* a status answer: the accepted and reward fields of SolutionSubmissionResponse
Answer(accepted, reward) == [accepted |-> accepted, reward |-> reward]
NoAnswer == Answer("unset", NULL)

\* AgentNode.__init__ and download_problem_instance_data_by_name: nothing
\* collected, no submission tracked, the instance taken as active, nothing
\* being solved; no thread has called solve_problem_instance
InitClients ==
    /\ clients = [a \in AgentIds |->
                    [reward_accumulated |-> 0, active_solution_submission_ids |-> {},
                     active |-> TRUE, solving_problem_instance_name |-> "None"]]
    /\ solver_pc = [t \in Threads |-> [pos |-> "idle", agent |-> 0]]
    /\ answered = [s \in SubIds |-> NoAnswer]
    /\ collected = [s \in SubIds |-> 0]

Init ==
    /\ now = 0
    /\ agent_counter = 0
    /\ agent_nodes = {}
    /\ problem_instances = [i \in Instances |->
           [active |-> TRUE, reward_accumulated |-> 0, reward_budget |-> REWARD_BUDGET]]
    /\ all_solutions = <<>>
    /\ validations = EmptyBag
    /\ best_solutions = [i \in Instances |-> 0]
    /\ best_file = [i \in Instances |-> 0]
    /\ active_files = {}
    /\ pc = [s \in SubIds |-> "none"]
    /\ loc = [s \in SubIds |-> NoLocals]
    /\ req = IdleReq
    /\ faults = 0
    /\ entered = [s \in SubIds |-> 0]
    /\ late = {}
    /\ InitClients
    /\ InitConnections

\* ------------------------------------------------------------- the clock
\* datetime.now() advances independently of every thread.  Only differences
\* to the times of open submissions are ever read, so the clock is advanced
\* only while a validation phase is open.
Tick ==
    /\ now < MaxTime
    /\ \E s \in SubIds : pc[s] = "loop"
    /\ now' = now + 1
    /\ UNCHANGED <<late, agents_v, problem_instances, all_solutions, validations,
                   best_solutions, files_v, monitor_v, req, faults>>

\* ------------------------------------------------------- agent registration
\* GET /agent/register: the counter is incremented before the INSERT and is
\* not restored when the INSERT fails.
register_agent_to_platform ==
    /\ req = IdleReq
    /\ agent_counter < MaxAgents
    /\ Load < MaxLoad
    /\ agent_counter' = agent_counter + 1
    /\ \/ /\ agent_nodes' = agent_nodes \cup {agent_counter + 1}
          /\ UNCHANGED faults
       \/ /\ MayFail
          /\ faults' = faults + 1
          /\ UNCHANGED agent_nodes
    /\ UNCHANGED <<now, late, problem_instances, all_solutions, validations,
                   best_solutions, files_v, monitor_v, req>>

\* ------------------------------------------------------------------ upload
\* POST /solutions/upload/{name}, first part: the agent is registered and the
\* problem instance is active (any other request is answered 404 with no effect).
upload_solution(a, i) ==
    /\ req = IdleReq
    /\ a \in agent_nodes
    /\ Len(all_solutions) < MaxSubs
    /\ Load < MaxLoad
    /\ now + SOLUTION_VALIDATION_DURATION <= MaxTime
    /\ problem_instances[i].active
    /\ req' = [op |-> "upload", agent |-> a, inst |-> i]
    /\ UNCHANGED <<now, late, agents_v, problem_instances, all_solutions, validations,
                   best_solutions, files_v, monitor_v, faults>>

\* the row INSERT INTO all_solutions writes; columns it does not name are NULL,
\* active defaults to TRUE
NewSubmissionRow(a, i) ==
    [agent_id |-> a, problem_instance_name |-> i,
     submission_time |-> now,
     validation_end_time |-> now + SOLUTION_VALIDATION_DURATION,
     sol_file_path |-> TRUE, accepted |-> "unset", active |-> TRUE,
     objective_value |-> NULL, reward_accumulated |-> NULL,
     accepted_count |-> NULL, rejected_count |-> NULL]

\* history: submission s of instance i is created now; it is recorded when the
\* posted reward of i has reached the budget already
LateAfter(s, i) ==
    IF problem_instances[i].reward_accumulated >= problem_instances[i].reward_budget
    THEN late \cup {s} ELSE late

\* second part of the upload handler: insert the row, write the payload file,
\* start the monitor thread.  A failing INSERT leaves nothing; a failing file
\* write raises after the row was committed.
start_solution_validation_phase ==
    /\ req.op = "upload"
    /\ LET s == Len(all_solutions) + 1 IN
       \/ /\ MayFail                       \* INSERT fails
          /\ faults' = faults + 1
          /\ UNCHANGED <<all_solutions, active_files, pc, late>>
       \/ /\ MayFail                       \* open()/write() fails
          /\ faults' = faults + 1
          /\ all_solutions' = Append(all_solutions, NewSubmissionRow(req.agent, req.inst))
          /\ late' = LateAfter(s, req.inst)
          /\ UNCHANGED <<active_files, pc>>
       \/ /\ all_solutions' = Append(all_solutions, NewSubmissionRow(req.agent, req.inst))
          /\ late' = LateAfter(s, req.inst)
          /\ active_files' = active_files \cup {s}
          /\ pc' = [pc EXCEPT ![s] = "loop"]
          /\ UNCHANGED faults
    /\ req' = IdleReq
    /\ UNCHANGED <<now, agents_v, problem_instances, validations, best_solutions,
                   best_file, loc, entered>>

\* ------------------------------------------------------------ the monitor
\* SELECT SUM(reward) ... WHERE problem_instance_name = i
ActiveReward(i) ==
    SumReward(validations, {r \in Rows(validations) : r.problem_instance_name = i})

\* the condition under which the loop body issues its UPDATE: both amounts
\* are truthy and posted + in-flight reward reaches the budget
LoopBudgetReached(i) ==
    /\ problem_instances[i].reward_accumulated # 0
    /\ problem_instances[i].reward_budget # 0
    /\ problem_instances[i].reward_accumulated + ActiveReward(i)
           >= problem_instances[i].reward_budget

\* "UPDATE problem_instances SET active = False,  WHERE name = ?" is not valid
\* SQL (comma before WHERE): the statement raises sqlite3.Error every time it
\* is executed, so the row is never changed by it.
LoopDeactivateSucceeds == FALSE

\* variant: the loop does not wait for validation_end_time
manage_validation_phase_no_wait(s) ==
    /\ pc[s] = "loop"
    /\ pc' = [pc EXCEPT ![s] = "f_results"]
    /\ entered' = [entered EXCEPT ![s] = @ + 1]
    /\ loc' = [loc EXCEPT ![s].reached = FALSE]
    /\ UNCHANGED <<now, late, agents_v, problem_instances, all_solutions, validations,
                   best_solutions, files_v, req, faults>>

\* _manage_validation_phase: one evaluation of the loop condition together
\* with the iteration it admits (sleep, budget check, then `continue`, or
\* `break` when the UPDATE succeeded); once the loop is left the thread calls
\* _finalize_validation.  The iteration reads the store and, as its UPDATE
\* never succeeds, changes nothing but the thread's locals: `reached` is the
\* outcome of the budget test of the last iteration (it is dead once the loop
\* is left).
manage_validation_phase(s) ==
    /\ pc[s] = "loop"
    /\ LET i == all_solutions[s].problem_instance_name IN
       IF now < all_solutions[s].validation_end_time
       THEN /\ loc' = [loc EXCEPT ![s].reached = LoopBudgetReached(i)]
            /\ IF LoopBudgetReached(i) /\ LoopDeactivateSucceeds
               THEN /\ problem_instances' = [problem_instances EXCEPT ![i].active = FALSE]
                    /\ pc' = [pc EXCEPT ![s] = "f_results"]
                    /\ entered' = [entered EXCEPT ![s] = @ + 1]
               ELSE UNCHANGED <<problem_instances, pc, entered>>
       ELSE /\ pc' = [pc EXCEPT ![s] = "f_results"]
            /\ entered' = [entered EXCEPT ![s] = @ + 1]
            /\ loc' = [loc EXCEPT ![s].reached = FALSE]
            /\ UNCHANGED problem_instances
    /\ UNCHANGED <<now, late, agents_v, all_solutions, validations, best_solutions,
                   files_v, req, faults>>

\* -------------------------------------------------- _finalize_validation
\* Each step is one store or file operation of the function together with the
\* local computation that precedes it.

\* sum(validations): the accepting rows of a bag of vote rows
AcceptingRows(b) == {r \in Rows(b) : r.validation_response}

\* values v maximising values.count(v) over the rows R of bag b:
\* max(set(values), key=values.count) returns one of them, which one depends on
\* the iteration order of the set
MostCommon(b, R) ==
    LET cnt(v) == CountRows(b, {r \in R : r.objective_value = v})
        vals   == {r.objective_value : r \in R}
    IN  {v \in vals : \A w \in vals : cnt(v) >= cnt(w)}

\* variant: the ratio has to exceed the consensus ratio
ConsensusReachedStrict(accepted_count, agents) ==
    accepted_count * CONSENSUS_RATIO_DEN > CONSENSUS_RATIO_NUM * (agents - 1)

\* acceptance_ratio >= SOLUTION_VALIDATION_CONSENUS_RATIO, the ratio being
\* accepted_count / (agent_counter - 1)
ConsensusReached(accepted_count, agents) ==
    accepted_count * CONSENSUS_RATIO_DEN >= CONSENSUS_RATIO_NUM * (agents - 1)

\* the thread leaves _finalize_validation: its locals are gone
StepDone(s) ==
    /\ pc' = [pc EXCEPT ![s] = "done"]
    /\ loc' = [loc EXCEPT ![s] = NoLocals]

\* the rows the function reads: results = SELECT * FROM
\* active_solutions_submissions_validations WHERE solution_submission_id = s,
\* and the sum of their rewards
ReadResults(l, s) ==
    LET res == BagOf(validations, s)
    IN  [l EXCEPT !.results = res, !.reward_accumulated = SumReward(res, Rows(res))]

\* variant: a submission nobody voted on is accepted
DecisionAcceptsUnvoted(l, agents, v) ==
    LET res  == l.results
        n    == BagCardinality(res)
        acc  == CountRows(res, AcceptingRows(res))
    IN  IF agents = 1 \/ n = 0
        THEN [l EXCEPT !.accepted = TRUE, !.accepted_count = 1, !.rejected_count = 0,
                       !.objective_value = v]
        ELSE [l EXCEPT !.accepted = ConsensusReached(acc, agents),
                       !.accepted_count = acc, !.rejected_count = n - acc,
                       !.objective_value = v]

\* variant: no rule for a single agent, every decision is taken on the votes
DecisionNoBootstrap(l, agents, v) ==
    LET res  == l.results
        n    == BagCardinality(res)
        acc  == CountRows(res, AcceptingRows(res))
    IN  IF n = 0
        THEN [l EXCEPT !.accepted = FALSE, !.accepted_count = 0, !.rejected_count = 0,
                       !.objective_value = NULL]
        ELSE [l EXCEPT !.accepted = ConsensusReached(acc, agents),
                       !.accepted_count = acc, !.rejected_count = n - acc,
                       !.objective_value = v]

\* lines 338-367: the outcome computed from the rows read, from agent_counter
\* and from the objective value v (the submitter's own when a single agent is
\* registered, else the most common one reported)
Decision(l, agents, v) ==
    LET res  == l.results
        n    == BagCardinality(res)
        acc  == CountRows(res, AcceptingRows(res))
    IN  IF agents = 1
        THEN [l EXCEPT !.accepted = TRUE, !.accepted_count = 1, !.rejected_count = 0,
                       !.objective_value = v]
        ELSE IF n = 0
        THEN [l EXCEPT !.accepted = FALSE, !.accepted_count = 0, !.rejected_count = 0,
                       !.objective_value = NULL]
        ELSE [l EXCEPT !.accepted = ConsensusReached(acc, agents),
                       !.accepted_count = acc, !.rejected_count = n - acc,
                       !.objective_value = v]

\* the objective values the decision may report: the objective_value argument
\* of the call (any value the submitter computed) for a single agent, else a
\* most common value of the accepting rows (accepted) or of all rows (declined)
DecisionObjectives(l, agents) ==
    LET res == l.results
        acc == CountRows(res, AcceptingRows(res))
    IN  IF agents = 1 THEN Objectives
        ELSE IF BagCardinality(res) = 0 THEN {NULL}
        ELSE IF ConsensusReached(acc, agents)
        THEN IF AcceptingRows(res) = {} THEN {NULL}
             ELSE MostCommon(res, AcceptingRows(res))
        ELSE MostCommon(res, Rows(res))

\* lines 326-374: read the vote rows (a failed query returns), decide from
\* them and from agent_counter, SELECT sol_file_path (a failed query returns).
\* Nothing but agent_counter is read between the first query and the
\* decision, and registering an agent does not touch the rows read.
finalize_read_results(s) ==
    /\ pc[s] = "f_results"
    /\ \/ /\ \E v \in DecisionObjectives(ReadResults(loc[s], s), agent_counter) :
                loc' = [loc EXCEPT ![s] =
                            Decision(ReadResults(loc[s], s), agent_counter, v)]
          /\ pc' = [pc EXCEPT ![s] = IF loc'[s].accepted THEN "f_best" ELSE "f_budget"]
          /\ UNCHANGED faults
       \/ /\ MayFail
          /\ faults' = faults + 1
          /\ StepDone(s)
    /\ UNCHANGED <<now, late, agents_v, problem_instances, all_solutions, validations,
                   best_solutions, files_v, req, entered>>

\* lines 378-404 (accepted only): read the payload (a failure returns), write
\* it to the best-solution file (a failure is logged only), add the success
\* reward
finalize_save_best(s) ==
    /\ pc[s] = "f_best"
    /\ LET i == all_solutions[s].problem_instance_name
           readable == all_solutions[s].sol_file_path /\ s \in active_files
           rewarded == [loc EXCEPT ![s].reward_accumulated =
                                       @ + SUCCESSFUL_SOLUTION_SUBMISSION_REWARD]
       IN
       \/ /\ readable
          /\ best_file' = [best_file EXCEPT ![i] = s]
          /\ loc' = rewarded
          /\ pc' = [pc EXCEPT ![s] = "f_budget"]
          /\ UNCHANGED faults
       \/ /\ readable                       \* writing the best file fails
          /\ MayFail
          /\ faults' = faults + 1
          /\ loc' = rewarded
          /\ pc' = [pc EXCEPT ![s] = "f_budget"]
          /\ UNCHANGED best_file
       \/ /\ readable                       \* reading the payload fails
          /\ MayFail
          /\ faults' = faults + 1
          /\ StepDone(s)
          /\ UNCHANGED best_file
       \/ /\ ~readable                      \* no path or no file: open() raises
          /\ StepDone(s)
          /\ UNCHANGED <<best_file, faults>>
    /\ UNCHANGED <<now, late, agents_v, problem_instances, all_solutions, validations,
                   best_solutions, active_files, req, entered>>

\* lines 425-445: the budget test reads the row before the transaction that
\* adds this submission's reward has run (a failed query is logged and no
\* deactivation is queued); then os.remove of the payload file, whose failure
\* is logged only (os.remove(None) fails the same way)
finalize_check_budget(s) ==
    /\ pc[s] = "f_budget"
    /\ LET i == all_solutions[s].problem_instance_name
           reached == problem_instances[i].reward_accumulated
                          >= problem_instances[i].reward_budget
       IN
       \/ /\ loc' = [loc EXCEPT ![s].deactivate = reached]
          /\ active_files' = IF all_solutions[s].sol_file_path
                             THEN active_files \ {s} ELSE active_files
          /\ UNCHANGED faults
       \/ /\ MayFail                         \* the budget query fails
          /\ faults' = faults + 1
          /\ loc' = [loc EXCEPT ![s].deactivate = FALSE]
          /\ active_files' = IF all_solutions[s].sol_file_path
                             THEN active_files \ {s} ELSE active_files
       \/ /\ MayFail                         \* os.remove fails
          /\ all_solutions[s].sol_file_path
          /\ faults' = faults + 1
          /\ loc' = [loc EXCEPT ![s].deactivate = reached]
          /\ UNCHANGED active_files
    /\ pc' = [pc EXCEPT ![s] = "f_commit"]
    /\ UNCHANGED <<now, late, agents_v, problem_instances, all_solutions, validations,
                   best_solutions, best_file, req, entered>>

\* the statements queued in database_transactions:
\* UPDATE all_solutions SET reward_accumulated, objective_value, accepted,
\* active = FALSE, accepted_count, rejected_count, sol_file_path = NULL
FinalizedRow(row, l) ==
    [row EXCEPT !.reward_accumulated = l.reward_accumulated,
                !.objective_value = l.objective_value,
                !.accepted = IF l.accepted THEN "true" ELSE "false",
                !.active = FALSE,
                !.accepted_count = l.accepted_count,
                !.rejected_count = l.rejected_count,
                !.sol_file_path = FALSE]

\* variant: the reward is written over the instance's reward, not added to it
AccruedInstanceOverwrite(irow, l) ==
    [irow EXCEPT !.reward_accumulated = l.reward_accumulated,
                 !.active = IF l.deactivate THEN FALSE ELSE @]

\* UPDATE problem_instances SET reward_accumulated = reward_accumulated + ?
\* and, when queued, UPDATE problem_instances SET active = False
AccruedInstance(irow, l) ==
    [irow EXCEPT !.reward_accumulated = @ + l.reward_accumulated,
                 !.active = IF l.deactivate THEN FALSE ELSE @]

\* variant: the best-solution row is written for every finalized submission
BestAfterAlways(best, i, s, l) == [best EXCEPT ![i] = s]

\* INSERT OR REPLACE INTO best_solutions, queued only when accepted
BestAfter(best, i, s, l) ==
    IF l.accepted THEN [best EXCEPT ![i] = s] ELSE best

\* DELETE FROM active_solutions_submissions_validations WHERE solution_submission_id = s
DeleteRowsOf(b, s) ==
    LET keep == {r \in Rows(b) : r.solution_submission_id # s}
    IN  [r \in keep |-> b[r]]

\* lines 457-461: execute_transaction commits every queued statement or, on a
\* failing statement, rolls back and raises sqlite3.Error, which the caller
\* logs (the deny-by-default handler is not entered)
finalize_commit(s) ==
    /\ pc[s] = "f_commit"
    /\ LET i == all_solutions[s].problem_instance_name IN
       \/ /\ all_solutions' = [all_solutions EXCEPT ![s] = FinalizedRow(@, loc[s])]
          /\ problem_instances' =
                 [problem_instances EXCEPT ![i] = AccruedInstance(@, loc[s])]
          /\ best_solutions' = BestAfter(best_solutions, i, s, loc[s])
          /\ validations' = DeleteRowsOf(validations, s)
          /\ UNCHANGED faults
       \/ /\ MayFail
          /\ faults' = faults + 1
          /\ UNCHANGED <<all_solutions, problem_instances, best_solutions, validations>>
    /\ StepDone(s)
    /\ UNCHANGED <<now, late, agents_v, files_v, req, entered>>

\* variant: the deny-by-default write also runs after the function's last statement
FallbackPositionsLate ==
    {"f_results", "f_best", "f_budget", "f_commit", "done"}

\* positions of _finalize_validation's try body at which a statement can raise
FallbackPositions ==
    {"f_results", "f_best", "f_budget", "f_commit"}

\* UPDATE all_solutions SET accepted = FALSE, active = FALSE WHERE id = ?
FallbackRow(row) == [row EXCEPT !.accepted = "false", !.active = FALSE]

\* lines 464-471: a statement of the try body raises an exception that no
\* inner handler catches; the submission is declined by default with a write
\* outside any transaction, which may fail too (logged only)
finalize_fallback(s) ==
    /\ pc[s] \in FallbackPositions
    /\ MayFail
    /\ faults' = faults + 1
    /\ \/ all_solutions' = [all_solutions EXCEPT ![s] = FallbackRow(@)]
       \/ UNCHANGED all_solutions
    /\ StepDone(s)
    /\ UNCHANGED <<now, late, agents_v, problem_instances, validations, best_solutions,
                   files_v, req, entered>>

\* ------------------------------------------------------------------ voting
\* variant: the submitter is not told apart from the other agents
OwnSubmissionNever(a, s) == FALSE

\* if solution_submission["agent_id"] == agent_id: 400, an agent cannot
\* validate its own solution
OwnSubmission(a, s) == all_solutions[s].agent_id = a

\* POST /solutions/validate/{id}, lines 473-519: the agent is registered, the
\* submission exists and its accepted column is still NULL, the problem
\* instance is active and the agent is not the submitter (else 400/404 and no
\* effect).  The two rows are read in one step: `active` only ever changes
\* from TRUE to FALSE, so a request that finds the instance active at the
\* second query would have found it active at the first.
validate_solution(a, s) ==
    /\ req = IdleReq
    /\ a \in agent_nodes
    /\ Exists(s)
    /\ all_solutions[s].accepted = "unset"
    /\ problem_instances[all_solutions[s].problem_instance_name].active
    /\ ~OwnSubmission(a, s)
    /\ req' = [op |-> "vote", agent |-> a, sub |-> s]
    /\ UNCHANGED <<now, late, agents_v, problem_instances, all_solutions, validations,
                   best_solutions, files_v, monitor_v, faults>>

\* the row INSERT INTO active_solutions_submissions_validations writes
VoteRow(s, i, a, response, obj) ==
    [solution_submission_id |-> s, problem_instance_name |-> i,
     agent_validated_id |-> a, validation_response |-> response,
     objective_value |-> obj, reward |-> SOLUTION_VALIDATION_REWARD]

\* variant: only an accepting vote of the agent counts as a previous vote
HasValidatedAccepting(s, a) ==
    \E r \in Rows(validations) :
        /\ r.solution_submission_id = s
        /\ r.agent_validated_id = a
        /\ r.validation_response

\* SELECT * ... WHERE solution_submission_id = ? AND agent_validated_id = ?
HasValidated(s, a) ==
    \E r \in Rows(validations) :
        r.solution_submission_id = s /\ r.agent_validated_id = a

\* lines 521-541: the agent has no row for this submission yet (else 400);
\* register_solution_validation inserts the row (a failure is answered 500);
\* the response carries the validation reward
register_solution_validation(response, obj) ==
    /\ req.op = "vote"
    /\ LET row == VoteRow(req.sub, all_solutions[req.sub].problem_instance_name,
                          req.agent, response, obj) IN
       IF HasValidated(req.sub, req.agent)
       THEN UNCHANGED <<validations, faults>>
       ELSE \/ /\ validations' = validations (+) SetToBag({row})
               /\ UNCHANGED faults
            \/ /\ MayFail
               /\ faults' = faults + 1
               /\ UNCHANGED validations
    /\ req' = IdleReq
    /\ UNCHANGED <<now, late, agents_v, problem_instances, all_solutions, best_solutions,
                   files_v, monitor_v>>

\* ------------------------------------------------------------ specification
Next ==
    \/ Tick /\ UNCHANGED outer_v
    \/ register_agent_to_platform /\ UNCHANGED outer_v
    \/ \E a \in AgentIds, i \in Instances : upload_solution(a, i) /\ UNCHANGED outer_v
    \/ start_solution_validation_phase /\ UNCHANGED outer_v
    \/ \E s \in SubIds : manage_validation_phase(s) /\ UNCHANGED outer_v
    \/ \E s \in SubIds : finalize_read_results(s) /\ UNCHANGED outer_v
    \/ \E s \in SubIds : finalize_save_best(s) /\ UNCHANGED outer_v
    \/ \E s \in SubIds : finalize_check_budget(s) /\ UNCHANGED outer_v
    \/ \E s \in SubIds : finalize_commit(s) /\ UNCHANGED outer_v
    \/ \E s \in SubIds : finalize_fallback(s) /\ UNCHANGED outer_v
    \/ \E a \in AgentIds, s \in SubIds : validate_solution(a, s) /\ UNCHANGED outer_v
    \/ \E response \in BOOLEAN, obj \in Objectives :
           register_solution_validation(response, obj) /\ UNCHANGED outer_v

Spec == Init /\ [][Next]_vars

\* ------------------------------------- _finalize_validation called again
MaxCalls == 2       \* calls of _finalize_validation per submission

\* _finalize_validation(problem_instance_name, s, objective_value) is called
\* for a submission whose accepted column an earlier call has set: the
\* function takes the submission id as its argument and starts with the same
\* query whatever the state of the row is
refinalize(s) ==
    /\ pc[s] = "done"
    /\ all_solutions[s].accepted # "unset"
    /\ entered[s] < MaxCalls
    /\ pc' = [pc EXCEPT ![s] = "f_results"]
    /\ entered' = [entered EXCEPT ![s] = @ + 1]
    /\ UNCHANGED <<now, late, agents_v, problem_instances, all_solutions, validations,
                   best_solutions, files_v, loc, req, faults>>

\* the program's steps in runs with a single submission, and the further call
NextRefinalize ==
    \/ Tick /\ UNCHANGED outer_v
    \/ register_agent_to_platform /\ UNCHANGED outer_v
    \/ \E a \in AgentIds, i \in Instances :
           all_solutions = <<>> /\ upload_solution(a, i) /\ UNCHANGED outer_v
    \/ start_solution_validation_phase /\ UNCHANGED outer_v
    \/ \E s \in SubIds : manage_validation_phase(s) /\ UNCHANGED outer_v
    \/ \E s \in SubIds : finalize_read_results(s) /\ UNCHANGED outer_v
    \/ \E s \in SubIds : finalize_save_best(s) /\ UNCHANGED outer_v
    \/ \E s \in SubIds : finalize_check_budget(s) /\ UNCHANGED outer_v
    \/ \E s \in SubIds : finalize_commit(s) /\ UNCHANGED outer_v
    \/ \E s \in SubIds : finalize_fallback(s) /\ UNCHANGED outer_v
    \/ \E a \in AgentIds, s \in SubIds : validate_solution(a, s) /\ UNCHANGED outer_v
    \/ \E response \in BOOLEAN, obj \in Objectives :
           register_solution_validation(response, obj) /\ UNCHANGED outer_v
    \/ \E s \in SubIds : refinalize(s) /\ UNCHANGED outer_v

SpecRefinalize == Init /\ [][NextRefinalize]_vars

\* ================================================================ properties

\* the step is the committed transaction of submission s
Commits(s) ==
    /\ Exists(s)
    /\ pc[s] = "f_commit"
    /\ all_solutions[s].sol_file_path
    /\ ~all_solutions'[s].sol_file_path

\* number of vote rows of submission s in the table
VotesOf(s) == CountRows(validations, RowsOf(validations, s))

\* number of accepting vote rows of submission s in the table
AcceptVotesOf(s) ==
    CountRows(validations, {r \in RowsOf(validations, s) : r.validation_response})

\* C1: for every submission the accepted column, once it holds a boolean, is
\* never written with another value and never reset, in any step of any
\* thread (the deny-by-default write included).
C1_AcceptedWriteOnce ==
    [][\A s \in SubIds :
          (Exists(s) /\ all_solutions[s].accepted # "unset")
              => all_solutions'[s].accepted = all_solutions[s].accepted]_vars

\* C1 witness: a submission declined by the deny-by-default write (accepted
\* is FALSE while the columns only the transaction writes are still NULL).
C1_Witness ==
    \E s \in SubIds :
        /\ Exists(s)
        /\ all_solutions[s].accepted = "false"
        /\ all_solutions[s].reward_accumulated = NULL
        /\ pc[s] = "done"

\* C2: a call of _finalize_validation for a submission whose accepted column
\* is already set changes neither the submission's accepted, objective_value
\* and reward_accumulated nor the problem instance's reward_accumulated.
C2_RefinalizeHasNoEffect ==
    [][\A s \in SubIds :
          (Exists(s) /\ all_solutions[s].accepted # "unset" /\ pc[s] \in FallbackPositions)
              => /\ all_solutions'[s].accepted = all_solutions[s].accepted
                 /\ all_solutions'[s].objective_value = all_solutions[s].objective_value
                 /\ all_solutions'[s].reward_accumulated = all_solutions[s].reward_accumulated
                 /\ (pc'[s] # pc[s] =>
                        problem_instances'[all_solutions[s].problem_instance_name].reward_accumulated
                          = problem_instances[all_solutions[s].problem_instance_name].reward_accumulated)]_vars

\* C3: every vote row that a step removes from the table was among the rows
\* the finalize of its submission read and tallied (with the same
\* multiplicity): no recorded vote is deleted uncounted or counted twice.
C3_DeletedVotesWereCounted ==
    [][\A s \in SubIds : \A r \in RowsOf(validations, s) :
          CopiesIn(r, validations') < CopiesIn(r, validations)
              => CopiesIn(r, loc[s].results) = CopiesIn(r, validations)]_vars

\* C4: in every state, a submission whose finalize transaction has committed
\* (accepted set, sol_file_path cleared) has no vote row in the table.
C4_NoVoteRowAfterCommit ==
    \A s \in SubIds :
        (Exists(s) /\ all_solutions[s].accepted # "unset" /\ ~all_solutions[s].sol_file_path)
            => RowsOf(validations, s) = {}

\* C5: in every state the table holds at most one vote row per
\* (solution_submission_id, agent_validated_id) pair.
C5_OneVotePerAgent ==
    \A r1 \in Rows(validations) :
        /\ CopiesIn(r1, validations) = 1
        /\ \A r2 \in Rows(validations) :
              (r1.solution_submission_id = r2.solution_submission_id
                 /\ r1.agent_validated_id = r2.agent_validated_id) => r1 = r2

\* C5 witness: the handler is serving a second vote request of an agent whose
\* vote for the same submission is already in the table.
C5_Witness ==
    /\ req.op = "vote"
    /\ HasValidated(req.sub, req.agent)

\* C6: in every state no vote row names as validator the agent that
\* submitted the solution the row votes on.
C6_NoSelfVote ==
    \A r \in Rows(validations) :
        r.agent_validated_id # all_solutions[r.solution_submission_id].agent_id

\* C6 witness: two submissions of different agents, each holding a vote of
\* the other submission's submitter.
C6_Witness ==
    \E r1, r2 \in Rows(validations) :
        /\ r1.solution_submission_id # r2.solution_submission_id
        /\ r1.agent_validated_id = all_solutions[r2.solution_submission_id].agent_id
        /\ r2.agent_validated_id = all_solutions[r1.solution_submission_id].agent_id

\* C7: when the agent count is at least two, the decision finalize takes is
\* "accepted" exactly if (accepting vote rows) / (agent count - 1) is at least
\* the consensus ratio, and that decision is what the transaction writes.
C7_ConsensusRule ==
    [][\A s \in SubIds :
          /\ (pc[s] = "f_results" /\ pc'[s] \in {"f_best", "f_budget"} /\ agent_counter >= 2)
                => /\ loc'[s].accepted <=>
                          (AcceptVotesOf(s) * CONSENSUS_RATIO_DEN
                               >= CONSENSUS_RATIO_NUM * (agent_counter - 1))
                   /\ loc'[s].accepted_count = AcceptVotesOf(s)
          /\ Commits(s)
                => (all_solutions'[s].accepted = "true" <=> loc[s].accepted)]_vars

\* C7 witness: a committed submission accepted on one accepting and one
\* rejecting vote, that is with three agents and a ratio of exactly 1/2.
C7_Witness ==
    \E s \in SubIds :
        /\ Exists(s)
        /\ all_solutions[s].accepted = "true"
        /\ all_solutions[s].accepted_count = 1
        /\ all_solutions[s].rejected_count = 1

C9_RewardConservation ==
    [][\A s \in SubIds :
          (Exists(s) /\ all_solutions[s].accepted = "unset"
                     /\ all_solutions'[s].accepted # "unset")
              => (IF all_solutions'[s].reward_accumulated = NULL THEN 0
                  ELSE all_solutions'[s].reward_accumulated)
                     = VotesOf(s) * SOLUTION_VALIDATION_REWARD
                       + (IF all_solutions'[s].accepted = "true"
                          THEN SUCCESSFUL_SOLUTION_SUBMISSION_REWARD ELSE 0)]_vars

\* reward_accumulated summed over the finalized submissions of instance i
\* (a NULL column adds nothing)
FinalizedReward(i) ==
    LET S == {s \in DOMAIN all_solutions :
                 /\ all_solutions[s].problem_instance_name = i
                 /\ all_solutions[s].accepted # "unset"
                 /\ all_solutions[s].reward_accumulated # NULL}
    IN  SumOver([s \in S |-> all_solutions[s].reward_accumulated], S)

\* C10: in every state a problem instance's reward_accumulated is its initial
\* value (0) plus the reward_accumulated of its finalized submissions.
C10_InstanceRewardIsSum ==
    \A i \in Instances :
        problem_instances[i].reward_accumulated = FinalizedReward(i)

\* C10 witness: two finalized submissions of one instance, both with a
\* positive reward.
C10_Witness ==
    \E s1, s2 \in SubIds :
        /\ s1 # s2 /\ Exists(s1) /\ Exists(s2)
        /\ all_solutions[s1].accepted # "unset" /\ all_solutions[s2].accepted # "unset"
        /\ all_solutions[s1].reward_accumulated > 0
        /\ all_solutions[s2].reward_accumulated > 0

\* C11: in every state a problem instance whose posted reward_accumulated has
\* reached its reward_budget is inactive (the transaction that posts the
\* reward also deactivates the instance).
C11_BudgetReachedInactive ==
    \A i \in Instances :
        problem_instances[i].reward_accumulated >= problem_instances[i].reward_budget
            => ~problem_instances[i].active

\* C12: a committed finalize that adds reward to a problem instance belongs
\* to a submission created before the instance's posted reward reached the
\* budget: a submission created afterwards never adds reward.
C12_NoRewardFromLateSubmission ==
    [][\A s \in SubIds :
          (Commits(s)
             /\ problem_instances'[all_solutions[s].problem_instance_name].reward_accumulated
                  > problem_instances[all_solutions[s].problem_instance_name].reward_accumulated)
              => s \notin late]_vars

\* C13: no step decreases a problem instance's reward_accumulated, and no
\* step sets the active flag of an inactive instance.
C13_BudgetMonotone ==
    [][\A i \in Instances :
          /\ problem_instances'[i].reward_accumulated >= problem_instances[i].reward_accumulated
          /\ ~problem_instances[i].active => ~problem_instances'[i].active]_vars

\* C13 witness: an instance that was deactivated after two finalized
\* submissions added reward to it.
C13_Witness ==
    \E i \in Instances, s1, s2 \in SubIds :
        /\ ~problem_instances[i].active
        /\ s1 # s2 /\ Exists(s1) /\ Exists(s2)
        /\ all_solutions[s1].reward_accumulated > 0
        /\ all_solutions[s2].reward_accumulated > 0
        /\ problem_instances[i].reward_accumulated
               = all_solutions[s1].reward_accumulated + all_solutions[s2].reward_accumulated

\* C14: when an iteration of a monitor loop, made before the submission's
\* validation_end_time, finds the budget reached by the posted reward plus the
\* rewards of the stored votes, that step deactivates the instance and leaves
\* the loop for _finalize_validation.
C14_EarlyBreakOnBudget ==
    [][\A s \in SubIds :
          (pc[s] = "loop" /\ ~loc[s].reached /\ loc'[s].reached)
              => /\ ~problem_instances'[all_solutions[s].problem_instance_name].active
                 /\ pc'[s] = "f_results"]_vars

\* C15: a submission whose monitor thread has run to its end has its accepted
\* column set.  (The thread is the only writer of the column: a submission it
\* leaves unset stays unset forever.)
C15_MonitorEndsWithVerdict ==
    \A s \in SubIds :
        (Exists(s) /\ pc[s] = "done") => all_solutions[s].accepted # "unset"

\* C16: a step in which the finalize transaction of a submission fails (the
\* thread is past the commit, the row still has its file path) leaves reward,
\* best solution, votes and the row's result columns as they were and sets
\* accepted to FALSE.
C16_FailedTransactionFallsBack ==
    [][\A s \in SubIds :
          (Exists(s) /\ pc[s] = "f_commit" /\ pc'[s] = "done"
                     /\ all_solutions'[s].sol_file_path)
              => /\ problem_instances' = problem_instances
                 /\ best_solutions' = best_solutions
                 /\ validations' = validations
                 /\ all_solutions'[s].objective_value = all_solutions[s].objective_value
                 /\ all_solutions'[s].reward_accumulated = all_solutions[s].reward_accumulated
                 /\ all_solutions'[s].accepted = "false"]_vars

\* ------------------------------------------- the monitor's budget check
\* Runs of the program over an instance row with a small reward budget, with
\* the budget check of the monitor loop as a step of its own, so that its
\* outcome can be compared with the store it read.
SMALL_REWARD_BUDGET == 20

InitSmallBudget ==
    /\ now = 0
    /\ agent_counter = 0
    /\ agent_nodes = {}
    /\ problem_instances = [i \in Instances |->
           [active |-> TRUE, reward_accumulated |-> 0,
            reward_budget |-> SMALL_REWARD_BUDGET]]
    /\ all_solutions = <<>>
    /\ validations = EmptyBag
    /\ best_solutions = [i \in Instances |-> 0]
    /\ best_file = [i \in Instances |-> 0]
    /\ active_files = {}
    /\ pc = [s \in SubIds |-> "none"]
    /\ loc = [s \in SubIds |-> NoLocals]
    /\ req = IdleReq
    /\ faults = 0
    /\ entered = [s \in SubIds |-> 0]
    /\ late = {}
    /\ InitClients
    /\ InitConnections

\* one iteration of the loop up to the comparison with the budget: the two
\* SELECTs and the test of the loop body
budget_check(s) ==
    /\ pc[s] = "loop"
    /\ now < all_solutions[s].validation_end_time
    /\ pc' = [pc EXCEPT ![s] = "checked"]
    /\ loc' = [loc EXCEPT ![s].reached =
                   LoopBudgetReached(all_solutions[s].problem_instance_name)]
    /\ UNCHANGED <<now, late, agents_v, problem_instances, all_solutions, validations,
                   best_solutions, files_v, req, faults, entered>>

\* the rest of the iteration: the UPDATE and `break` when the test was true,
\* `continue` otherwise and when the UPDATE raised
budget_check_done(s) ==
    /\ pc[s] = "checked"
    /\ LET i == all_solutions[s].problem_instance_name IN
       IF loc[s].reached /\ LoopDeactivateSucceeds
       THEN /\ problem_instances' = [problem_instances EXCEPT ![i].active = FALSE]
            /\ pc' = [pc EXCEPT ![s] = "f_results"]
            /\ entered' = [entered EXCEPT ![s] = @ + 1]
       ELSE /\ pc' = [pc EXCEPT ![s] = "loop"]
            /\ UNCHANGED <<problem_instances, entered>>
    /\ UNCHANGED <<now, late, agents_v, all_solutions, validations, best_solutions,
                   files_v, loc, req, faults>>

NextBudgetCheck ==
    \/ Tick /\ UNCHANGED outer_v
    \/ register_agent_to_platform /\ UNCHANGED outer_v
    \/ \E a \in AgentIds, i \in Instances : upload_solution(a, i) /\ UNCHANGED outer_v
    \/ start_solution_validation_phase /\ UNCHANGED outer_v
    \/ \E s \in SubIds : budget_check(s) /\ UNCHANGED outer_v
    \/ \E s \in SubIds : budget_check_done(s) /\ UNCHANGED outer_v
    \/ \E s \in SubIds :
          /\ pc[s] = "loop"
          /\ now >= all_solutions[s].validation_end_time
          /\ manage_validation_phase(s)
          /\ UNCHANGED outer_v
    \/ \E s \in SubIds : finalize_read_results(s) /\ UNCHANGED outer_v
    \/ \E s \in SubIds : finalize_save_best(s) /\ UNCHANGED outer_v
    \/ \E s \in SubIds : finalize_check_budget(s) /\ UNCHANGED outer_v
    \/ \E s \in SubIds : finalize_commit(s) /\ UNCHANGED outer_v
    \/ \E s \in SubIds : finalize_fallback(s) /\ UNCHANGED outer_v
    \/ \E a \in AgentIds, s \in SubIds : validate_solution(a, s) /\ UNCHANGED outer_v
    \/ \E response \in BOOLEAN, obj \in Objectives :
          register_solution_validation(response, obj) /\ UNCHANGED outer_v

SpecBudgetCheck == InitSmallBudget /\ [][NextBudgetCheck]_vars

\* C17: the budget check of a monitor iteration is true exactly when the
\* instance's posted reward_accumulated plus the rewards of all stored votes of
\* the instance is >= reward_budget, whatever the posted amount, 0 included.
C17_BudgetCheckExact ==
    [][\A s \in SubIds :
          (pc[s] = "loop" /\ pc'[s] = "checked")
              => LET i == all_solutions[s].problem_instance_name IN
                 loc'[s].reached <=>
                     (problem_instances[i].reward_accumulated + ActiveReward(i)
                          >= problem_instances[i].reward_budget)]_vars

\* C18: creating a submission is all-or-nothing: every row of all_solutions
\* has had its payload file written and its monitor thread started (a failed
\* start_solution_validation_phase leaves no row behind).
C18_RowHasMonitorAndPayload ==
    \A s \in SubIds : Exists(s) => pc[s] # "none"

\* ------------------------------------------- selection for validation
NotFound == 0       \* the empty result list of get_solution_submission_id

\* variant: the cutoff is the request time itself, without the grace window
EligibleNoGrace(i, a) ==
    {s \in DOMAIN all_solutions :
        /\ all_solutions[s].problem_instance_name = i
        /\ all_solutions[s].active
        /\ all_solutions[s].agent_id # a
        /\ all_solutions[s].validation_end_time >= now
        /\ s \notin {r.solution_submission_id :
                        r \in {v \in Rows(validations) : v.agent_validated_id = a}}}

\* the WHERE clause of get_solution_submission_id, cutoff_time being
\* datetime.now() + 15 s
Eligible(i, a) ==
    {s \in DOMAIN all_solutions :
        /\ all_solutions[s].problem_instance_name = i
        /\ all_solutions[s].active
        /\ all_solutions[s].agent_id # a
        /\ all_solutions[s].validation_end_time >= now + GRACE_WINDOW
        /\ s \notin {r.solution_submission_id :
                        r \in {v \in Rows(validations) : v.agent_validated_id = a}}}

\* variant: ORDER BY submission_time DESC
FirstBySubmissionTimeDesc(S) ==
    {s \in S : \A t \in S :
        all_solutions[s].submission_time >= all_solutions[t].submission_time}

\* ORDER BY submission_time ASC LIMIT 1: the rows the statement can return;
\* among rows with equal submission_time the store returns any one
FirstBySubmissionTime(S) ==
    {s \in S : \A t \in S :
        all_solutions[s].submission_time <= all_solutions[t].submission_time}

\* get_solution_submission_id: the ids the query can answer with
get_solution_submission_id(i, a) ==
    IF Eligible(i, a) = {} THEN {NotFound}
    ELSE FirstBySubmissionTime(Eligible(i, a))

\* GET /solutions/validate/download/{problem_instance_name} up to the answer
\* of get_solution_submission_id: the agent is registered and the instance is
\* active (else 404 and nothing is selected); the answer is kept in the
\* request until the handler returns
download_solution_by_problem_instance_id(a, i) ==
    /\ req = IdleReq
    /\ a \in agent_nodes
    /\ problem_instances[i].active
    /\ \E s \in get_solution_submission_id(i, a) :
          req' = [op |-> "download", agent |-> a, inst |-> i, sub |-> s]
    /\ UNCHANGED <<now, late, agents_v, problem_instances, all_solutions, validations,
                   best_solutions, files_v, monitor_v, faults>>

\* the rest of the handler: 404 for an empty answer, else the row's
\* sol_file_path is read and the file returned (404 when it is gone); the
\* store and the files are only read
download_solution_return ==
    /\ req.op = "download"
    /\ req' = IdleReq
    /\ UNCHANGED <<now, late, agents_v, problem_instances, all_solutions, validations,
                   best_solutions, files_v, monitor_v, faults>>

NextSelect ==
    \/ Tick /\ UNCHANGED outer_v
    \/ register_agent_to_platform /\ UNCHANGED outer_v
    \/ \E a \in AgentIds, i \in Instances : upload_solution(a, i) /\ UNCHANGED outer_v
    \/ start_solution_validation_phase /\ UNCHANGED outer_v
    \/ \E s \in SubIds : manage_validation_phase(s) /\ UNCHANGED outer_v
    \/ \E s \in SubIds : finalize_read_results(s) /\ UNCHANGED outer_v
    \/ \E s \in SubIds : finalize_save_best(s) /\ UNCHANGED outer_v
    \/ \E s \in SubIds : finalize_check_budget(s) /\ UNCHANGED outer_v
    \/ \E s \in SubIds : finalize_commit(s) /\ UNCHANGED outer_v
    \/ \E s \in SubIds : finalize_fallback(s) /\ UNCHANGED outer_v
    \/ \E a \in AgentIds, s \in SubIds : validate_solution(a, s) /\ UNCHANGED outer_v
    \/ \E response \in BOOLEAN, obj \in Objectives :
          register_solution_validation(response, obj) /\ UNCHANGED outer_v
    \/ \E a \in AgentIds, i \in Instances : download_solution_by_problem_instance_id(a, i) /\ UNCHANGED outer_v
    \/ download_solution_return /\ UNCHANGED outer_v

SpecSelect == Init /\ [][NextSelect]_vars

\* the request served by this step is a selection
Selects == req = IdleReq /\ req'.op = "download"

\* submission s, at the time of the request, is of instance i, not finalized,
\* open for at least the grace window, not submitted by a, not voted on by a
Offerable(s, i, a) ==
    /\ Exists(s)
    /\ all_solutions[s].problem_instance_name = i
    /\ all_solutions[s].accepted = "unset"
    /\ all_solutions[s].validation_end_time - now >= GRACE_WINDOW
    /\ all_solutions[s].agent_id # a
    /\ ~HasValidated(s, a)

C20_SelectedIsOldest ==
    [][(Selects /\ req'.sub # NotFound) =>
          \A t \in SubIds :
              Offerable(t, req'.inst, req'.agent)
                  => all_solutions[req'.sub].submission_time
                         <= all_solutions[t].submission_time]_vars

\* the answer is the older of two submissions that are both eligible
C20_Witness ==
    /\ req.op = "download"
    /\ req.sub # NotFound
    /\ \E t \in SubIds :
          /\ Offerable(t, req.inst, req.agent)
          /\ Offerable(req.sub, req.inst, req.agent)
          /\ all_solutions[t].submission_time > all_solutions[req.sub].submission_time

\* the vote rows of submission s that accept it
AcceptingRowsOf(s) == {r \in RowsOf(validations, s) : r.validation_response}

\* the decision the thread of s took is the one for a single registered agent
\* (accepted without any vote read)
SingleAgentDecision(s) == loc[s].accepted /\ loc[s].results = EmptyBag

\* C21: the objective_value a committed finalize writes is, for an accepted
\* submission, a most common objective value of its accepting votes and, for a
\* declined one, a most common objective value of all its votes, NULL when it
\* has no vote.  (The acceptance of a single agent's submission, which has no
\* voter, is left aside.)
C21_FinalObjectiveIsMode ==
    [][\A s \in SubIds :
          (Commits(s) /\ ~SingleAgentDecision(s)) =>
              IF all_solutions'[s].accepted = "true"
              THEN all_solutions'[s].objective_value
                       \in MostCommon(validations, AcceptingRowsOf(s))
              ELSE IF RowsOf(validations, s) = {}
              THEN all_solutions'[s].objective_value = NULL
              ELSE all_solutions'[s].objective_value
                       \in MostCommon(validations, RowsOf(validations, s))]_vars

\* C22: a submission without any vote, finalized while at least two agents
\* are registered, is declined with reward 0: the decision taken on an empty
\* vote table declines it, and the transaction that writes this decision sets
\* accepted to FALSE and reward_accumulated to 0 and leaves the best-solution
\* record and the reward of the instance as they were.
C22_UnvotedIsRejected ==
    [][\A s \in SubIds :
          /\ (/\ pc[s] = "f_results" /\ pc'[s] \in {"f_best", "f_budget"}
              /\ VotesOf(s) = 0
              /\ Cardinality(agent_nodes) >= 2)
                 => (~loc'[s].accepted /\ loc'[s].reward_accumulated = 0)
          /\ (/\ Commits(s)
              /\ VotesOf(s) = 0
              /\ loc[s].results = EmptyBag /\ ~loc[s].accepted)
                 => /\ all_solutions'[s].accepted = "false"
                    /\ all_solutions'[s].reward_accumulated = 0
                    /\ best_solutions' = best_solutions
                    /\ problem_instances'[all_solutions[s].problem_instance_name].reward_accumulated
                         = problem_instances[all_solutions[s].problem_instance_name].reward_accumulated]_vars

\* a submission declined without votes on a platform of two agents, after an
\* accepted one had set the best-solution record and the instance's reward
C22_Witness ==
    \E s, t \in SubIds :
        /\ s # t /\ Exists(s) /\ Exists(t)
        /\ Cardinality(agent_nodes) >= 2
        /\ all_solutions[t].accepted = "true"
        /\ all_solutions[s].accepted = "false"
        /\ all_solutions[s].reward_accumulated = 0
        /\ all_solutions[s].accepted_count = 0
        /\ all_solutions[s].rejected_count = 0
        /\ best_solutions[all_solutions[s].problem_instance_name] = t
        /\ problem_instances[all_solutions[s].problem_instance_name].reward_accumulated
               = all_solutions[t].reward_accumulated

\* C23: the best_solutions row of an instance, when there is one, names a
\* submission of that instance whose accepted column is TRUE, and it is the
\* one whose acceptance was committed last: a step changes the row exactly
\* when it commits an acceptance, and then the row names that submission.
C23_BestIsLastAccepted ==
    [][\A i \in Instances :
          /\ best_solutions'[i] # 0
                => /\ best_solutions'[i] \in DOMAIN all_solutions'
                   /\ all_solutions'[best_solutions'[i]].problem_instance_name = i
                   /\ all_solutions'[best_solutions'[i]].accepted = "true"
          /\ \A s \in SubIds :
                (/\ Commits(s)
                 /\ all_solutions[s].problem_instance_name = i
                 /\ all_solutions'[s].accepted = "true")
                    => best_solutions'[i] = s
          /\ best_solutions'[i] # best_solutions[i]
                => \E s \in SubIds :
                      /\ Commits(s)
                      /\ all_solutions[s].problem_instance_name = i
                      /\ all_solutions'[s].accepted = "true"]_vars

\* two submissions of an instance were accepted and the best-solution row
\* names the one uploaded second
C23_Witness ==
    \E i \in Instances, s, t \in SubIds :
        /\ s < t /\ Exists(s) /\ Exists(t)
        /\ all_solutions[s].problem_instance_name = i
        /\ all_solutions[t].problem_instance_name = i
        /\ all_solutions[s].accepted = "true"
        /\ all_solutions[t].accepted = "true"
        /\ best_solutions[i] = t

\* C24: in every state, a submission whose accepted column is set has no
\* payload file left in the active-solutions directory and a NULL
\* sol_file_path.
C24_FinalizedHasNoPayload ==
    \A s \in SubIds :
        (Exists(s) /\ all_solutions[s].accepted # "unset")
            => (s \notin active_files /\ ~all_solutions[s].sol_file_path)

\* ------------------------------------------ runs over a small budget
\* the program over an instance row whose budget the first accepted
\* submission exhausts
SpecSmallBudget == InitSmallBudget /\ [][Next]_vars

\* C26: a row is inserted into all_solutions only for a problem instance that
\* is active at the moment of the insert.
C26_NoRowForInactiveInstance ==
    [][Len(all_solutions') > Len(all_solutions)
          => problem_instances[all_solutions'[Len(all_solutions')].problem_instance_name].active]_vars

\* C29: every submission that was created has had exactly one monitor thread
\* started, and that thread enters _finalize_validation exactly once: not
\* while it is in its loop, once when it has left it, never again.
C29_OneMonitorOneFinalize ==
    \A s \in SubIds :
        Exists(s) =>
            /\ pc[s] # "none"
            /\ entered[s] = IF pc[s] = "loop" THEN 0 ELSE 1

\* C30: the monitor thread of a submission leaves its loop before
\* validation_end_time only when its budget test was true and it deactivated
\* the instance, and the accepted column of a submission is written by that
\* thread inside _finalize_validation only: no request of an agent ends a phase.
C30_NoEarlyFinalize ==
    [][\A s \in SubIds :
          Exists(s) =>
              /\ (pc[s] = "loop" /\ pc'[s] # "loop")
                     => \/ now >= all_solutions[s].validation_end_time
                        \/ /\ loc'[s].reached
                           /\ ~problem_instances'[all_solutions[s].problem_instance_name].active
              /\ all_solutions'[s].accepted # all_solutions[s].accepted
                     => /\ pc[s] \in FallbackPositions
                        /\ req' = req
                        /\ now >= all_solutions[s].validation_end_time]_vars

\* a submission was finalized after its deadline while another one, on which
\* an agent has voted, is still open before its own deadline
C30_Witness ==
    \E s, t \in SubIds :
        /\ Exists(s) /\ Exists(t)
        /\ all_solutions[s].accepted # "unset"
        /\ now >= all_solutions[s].validation_end_time
        /\ pc[t] = "loop"
        /\ VotesOf(t) > 0
        /\ now < all_solutions[t].validation_end_time

\* ------------------------------------------- status of a submission
server_v == <<now, late, agents_v, problem_instances, all_solutions, validations,
              best_solutions, files_v, monitor_v, faults>>

\* variant: the reward answered is the one stored in the submission's row
StatusRewardStored(row) ==
    IF row.accepted = "unset" THEN NULL ELSE row.reward_accumulated

\* the reward field of the answer: absent while accepted is NULL, else
\* get_solution_success_reward() for an accepted submission and 0 for a
\* declined one
StatusReward(row) ==
    IF row.accepted = "unset" THEN NULL
    ELSE IF row.accepted = "true" THEN SUCCESSFUL_SOLUTION_SUBMISSION_REWARD
    ELSE 0

\* GET /solutions/status/{id}: the agent is registered, the submission exists
\* and is the agent's own (else 404/400); the answer carries the row's accepted
\* column and the reward; it is kept in the request until the agent has read it
get_solution_submission_status(a, s) ==
    /\ req = IdleReq
    /\ a \in agent_nodes
    /\ Exists(s)
    /\ all_solutions[s].agent_id = a
    /\ LET row == all_solutions[s] IN
       /\ req' = [op |-> "status", agent |-> a, sub |-> s,
                  accepted |-> row.accepted, reward |-> StatusReward(row)]
       /\ answered' = IF row.accepted = "unset" THEN answered
                      ELSE [answered EXCEPT ![s] = Answer(row.accepted, StatusReward(row))]
    /\ UNCHANGED <<server_v, clients, solver_pc, collected>>

\* variant: every answer for a validated submission is collected
CollectsRewardAlways(a, s, accepted) == accepted # "unset"

\* check_submit_solution_status: the answer says the submission is validated
\* and the id is still in the agent's active_solution_submission_ids
CollectsReward(a, s, accepted) ==
    /\ accepted # "unset"
    /\ s \in clients[a].active_solution_submission_ids

\* AgentNode.check_submit_solution_status after the answer has arrived: the
\* reward is added and the id removed when the submission is validated and
\* still tracked, else nothing changes
check_submit_solution_status ==
    /\ req.op = "status"
    /\ IF CollectsReward(req.agent, req.sub, req.accepted)
       THEN /\ clients' = [clients EXCEPT
                   ![req.agent].reward_accumulated = @ + req.reward,
                   ![req.agent].active_solution_submission_ids = @ \ {req.sub}]
            /\ collected' = [collected EXCEPT ![req.sub] = @ + 1]
       ELSE UNCHANGED <<clients, collected>>
    /\ req' = IdleReq
    /\ UNCHANGED <<server_v, solver_pc, answered>>

\* AgentNode.submit_solution after the answer of the upload has arrived: a 200
\* answer carries the id of the submission created, which the agent adds to
\* its active_solution_submission_ids; any other answer is logged only
upload_answered ==
    /\ start_solution_validation_phase
    /\ LET s == Len(all_solutions) + 1 IN
       clients' = IF pc'[s] = "loop"
                  THEN [clients EXCEPT
                           ![req.agent].active_solution_submission_ids = @ \cup {s}]
                  ELSE clients
    /\ UNCHANGED <<answered, collected>>

\* submit_solution called by the agent's main thread
submit_solution_response == upload_answered /\ UNCHANGED solver_pc

\* the server with one agent program per registered agent: an agent submits
\* one solution and asks for its status; runs with a single submission
NextAgent ==
    \/ Tick /\ UNCHANGED outer_v
    \/ register_agent_to_platform /\ UNCHANGED outer_v
    \/ \E a \in AgentIds, i \in Instances :
           all_solutions = <<>> /\ upload_solution(a, i) /\ UNCHANGED outer_v
    \/ submit_solution_response /\ UNCHANGED tx
    \/ \E s \in SubIds : manage_validation_phase(s) /\ UNCHANGED outer_v
    \/ \E s \in SubIds : finalize_read_results(s) /\ UNCHANGED outer_v
    \/ \E s \in SubIds : finalize_save_best(s) /\ UNCHANGED outer_v
    \/ \E s \in SubIds : finalize_check_budget(s) /\ UNCHANGED outer_v
    \/ \E s \in SubIds : finalize_commit(s) /\ UNCHANGED outer_v
    \/ \E s \in SubIds : finalize_fallback(s) /\ UNCHANGED outer_v
    \/ \E a \in AgentIds, s \in SubIds : validate_solution(a, s) /\ UNCHANGED outer_v
    \/ \E response \in BOOLEAN, obj \in Objectives :
           register_solution_validation(response, obj) /\ UNCHANGED outer_v
    \/ \E a \in AgentIds, s \in SubIds :
           get_solution_submission_status(a, s) /\ UNCHANGED tx
    \/ check_submit_solution_status /\ UNCHANGED tx

SpecAgent == Init /\ [][NextAgent]_vars

\* the step answers a status request
AnswersStatus == req = IdleReq /\ req'.op = "status"

\* C25: a status request of the submitter for a finalized submission is
\* answered with the accepted value and the reward of every earlier answer
\* given after the finalize, the reward being the success reward when accepted
\* and 0 otherwise, and answering changes nothing in the store or the files.
C25_StatusReadsAgree ==
    [][(AnswersStatus /\ req'.accepted # "unset") =>
          /\ answered[req'.sub] # NoAnswer
                => Answer(req'.accepted, req'.reward) = answered[req'.sub]
          /\ req'.reward = IF req'.accepted = "true"
                           THEN SUCCESSFUL_SOLUTION_SUBMISSION_REWARD ELSE 0
          /\ UNCHANGED server_v]_vars

\* an answer for a finalized submission is given after an earlier one, which
\* the agent has used to collect the reward, and after another agent has
\* registered
C25_Witness ==
    /\ req.op = "status"
    /\ req.accepted = "true"
    /\ collected[req.sub] = 1
    /\ Cardinality(agent_nodes) >= 2
    /\ answered[req.sub] = Answer("true", SUCCESSFUL_SOLUTION_SUBMISSION_REWARD)

\* C27: an agent adds the reward of a submission to its reward_accumulated at
\* most once, and a status check for a submission that is not in its
\* active_solution_submission_ids leaves the agent as it was.
C27_RewardCollectedOnce ==
    [][/\ \A s \in SubIds : collected'[s] <= 1
       /\ (/\ req.op = "status" /\ req' = IdleReq
           /\ req.sub \notin clients[req.agent].active_solution_submission_ids)
              => clients' = clients]_vars

\* the agent has collected the success reward of its accepted submission: the
\* id is gone from its active_solution_submission_ids, so every further status
\* check finds it removed
C27_Witness ==
    \E s \in SubIds :
        /\ Exists(s)
        /\ collected[s] = 1
        /\ req = IdleReq
        /\ answered[s] # NoAnswer
        /\ all_solutions[s].accepted = "true"
        /\ s \notin clients[all_solutions[s].agent_id].active_solution_submission_ids
        /\ clients[all_solutions[s].agent_id].reward_accumulated
               = SUCCESSFUL_SOLUTION_SUBMISSION_REWARD

\* ------------------------------------------- AgentNode.solve_problem_instance
solve_frame == <<clients, answered, collected>>

\* a thread calls solve_problem_instance of agent a: the test of
\* solving_problem_instance_name (the call returns when it is set; the
\* instance is one the agent has stored)
solve_check(t, a) ==
    /\ solver_pc[t].pos = "idle"
    /\ a \in agent_nodes
    /\ solver_pc' = [solver_pc EXCEPT ![t] =
            [pos |-> IF clients[a].solving_problem_instance_name # "None"
                     THEN "returned" ELSE "checked",
             agent |-> a]]
    /\ UNCHANGED <<server_v, req, solve_frame>>

\* update_problem_instance_status (GET /problem_instances/status/{name}, a
\* read of the instance row by the event loop) and what follows it: the call
\* returns when the instance is inactive, else solving_problem_instance_name
\* is set
solve_set(t, i) ==
    /\ solver_pc[t].pos = "checked"
    /\ req = IdleReq
    /\ LET a == solver_pc[t].agent
           active == problem_instances[i].active
       IN  /\ clients' = [clients EXCEPT
                   ![a].active = active,
                   ![a].solving_problem_instance_name = IF active THEN i ELSE @]
           /\ solver_pc' = [solver_pc EXCEPT
                   ![t].pos = IF active THEN "solving" ELSE "returned"]
    /\ UNCHANGED <<server_v, req, answered, collected>>

\* the single iteration of the solve loop: solver.solve raises (the name is
\* reset and the call returns), finds nothing, or finds a solution, which
\* submit_solution uploads (POST /solutions/upload; a 404 for an inactive
\* instance is logged only)
solve_run(t) ==
    /\ solver_pc[t].pos = "solving"
    /\ LET a == solver_pc[t].agent
           i == clients[a].solving_problem_instance_name
       IN
       \/ /\ solver_pc' = [solver_pc EXCEPT ![t].pos = "returned"]
          /\ clients' = [clients EXCEPT ![a].solving_problem_instance_name = "None"]
          /\ UNCHANGED <<server_v, req>>
       \/ /\ solver_pc' = [solver_pc EXCEPT ![t].pos = "finishing"]
          /\ UNCHANGED <<server_v, req, clients>>
       \/ /\ i \in Instances
          /\ upload_solution(a, i)
          /\ solver_pc' = [solver_pc EXCEPT ![t].pos = "submitting"]
          /\ UNCHANGED clients
       \/ /\ i \in Instances
          /\ req = IdleReq
          /\ ~problem_instances[i].active
          /\ solver_pc' = [solver_pc EXCEPT ![t].pos = "finishing"]
          /\ UNCHANGED <<server_v, req, clients>>
    /\ UNCHANGED <<answered, collected>>

\* the answer of the upload arrives: submit_solution adds the id of a created
\* submission to active_solution_submission_ids
solve_submitted(t) ==
    /\ solver_pc[t].pos = "submitting"
    /\ upload_answered
    /\ solver_pc' = [solver_pc EXCEPT ![t].pos = "finishing"]

\* after the loop: solving_problem_instance_name = None and the call returns
solve_finish(t) ==
    /\ solver_pc[t].pos = "finishing"
    /\ clients' = [clients EXCEPT
            ![solver_pc[t].agent].solving_problem_instance_name = "None"]
    /\ solver_pc' = [solver_pc EXCEPT ![t].pos = "returned"]
    /\ UNCHANGED <<server_v, req, answered, collected>>

\* agents register and threads call solve_problem_instance; the validation
\* phases the uploads open are still running
NextSolve ==
    \/ register_agent_to_platform /\ UNCHANGED outer_v
    \/ \E t \in Threads, a \in AgentIds : solve_check(t, a) /\ UNCHANGED tx
    \/ \E t \in Threads, i \in Instances : solve_set(t, i) /\ UNCHANGED tx
    \/ \E t \in Threads : solve_run(t) /\ UNCHANGED tx
    \/ \E t \in Threads : solve_submitted(t) /\ UNCHANGED tx
    \/ \E t \in Threads : solve_finish(t) /\ UNCHANGED tx

SpecSolve == Init /\ [][NextSolve]_vars

\* the threads that are inside a solve run of agent a: past the assignment of
\* solving_problem_instance_name and before its reset
SolveRuns(a) ==
    {t \in Threads : solver_pc[t].agent = a
                     /\ solver_pc[t].pos \in {"solving", "submitting", "finishing"}}

\* C28: no agent has two solve runs in progress at once.
C28_OneSolveRunPerAgent ==
    \A a \in AgentIds : Cardinality(SolveRuns(a)) <= 1

\* ------------------------------------------------ the outcome of the tally
\* the outcomes (accepted, objective_value) finalize can reach from the vote
\* rows submission s has in the table and the present agent_counter
Outcomes(s) ==
    LET l == ReadResults(loc[s], s)
    IN  {<<Decision(l, agent_counter, v).accepted,
           Decision(l, agent_counter, v).objective_value>> :
             v \in DecisionObjectives(l, agent_counter)}

\* C33: a finalize that is about to tally, with at least two agents
\* registered, has one outcome only: the vote rows and the agent count fix the
\* accepted value and the final objective, ties included.
C33_FinalizeDeterministic ==
    \A s \in SubIds :
        (pc[s] = "f_results" /\ agent_counter >= 2)
            => Cardinality(Outcomes(s)) = 1

\* the step stores a vote row of submission s
StoresVoteOf(s) ==
    \E r \in Rows(validations') :
        /\ r.solution_submission_id = s
        /\ CopiesIn(r, validations') > CopiesIn(r, validations)

\* C34: every step that stores a vote row of a submission is taken while the
\* submission's problem instance is active: once the instance is deactivated
\* no vote is recorded for any of its submissions.
C34_NoVoteForInactiveInstance ==
    [][\A s \in SubIds :
          (Exists(s) /\ StoresVoteOf(s))
              => problem_instances[all_solutions[s].problem_instance_name].active]_vars

\* C35: every step that stores a vote row of a submission is taken before the
\* submission's validation_end_time, the interval between the deadline and the
\* commit of finalize included.
C35_NoVoteAfterDeadline ==
    [][\A s \in SubIds :
          (Exists(s) /\ StoresVoteOf(s))
              => now < all_solutions[s].validation_end_time]_vars

\* a finalize of a submission of instance i is in progress
Finalizing(i) ==
    \E s \in SubIds :
        /\ Exists(s)
        /\ all_solutions[s].problem_instance_name = i
        /\ pc[s] \in FallbackPositions

\* C36: whenever no finalize of instance i is in progress, the best-solution
\* file of i holds the payload of the submission the best_solutions row of i
\* names (no file when there is no row).
C36_BestFileIsBestRecord ==
    \A i \in Instances :
        ~Finalizing(i) => best_file[i] = best_solutions[i]

\* C37: in every state a submission whose accepted column is unset has its
\* payload file in the active-solutions directory.
C37_OpenSubmissionHasPayload ==
    \A s \in SubIds :
        (Exists(s) /\ all_solutions[s].accepted = "unset") => s \in active_files

\* C38: in every state agent_counter, the count the consensus ratio and the
\* single-agent rule use, equals the number of rows of agent_nodes, and the
\* ids handed out so far are 1..agent_counter, each once.
C38_CounterIsRegistrySize ==
    /\ agent_counter = Cardinality(agent_nodes)
    /\ agent_nodes \subseteq 1..agent_counter

\* ------------------------------------------- DatabaseManager: connections
\* The store as a connection sees it written: the five tables hold what is
\* committed, tx[c] the statements connection c has executed inside its open
\* transaction.  SQLite lets one connection at a time write: a connection
\* whose statement finds another connection's transaction open waits for it
\* (busy timeout) and raises sqlite3.OperationalError when the wait is too
\* long.  Reads see the committed tables.
store_v == <<agent_nodes, problem_instances, all_solutions, validations, best_solutions>>

Store ==
    [agent_nodes |-> agent_nodes, problem_instances |-> problem_instances,
     all_solutions |-> all_solutions, validations |-> validations,
     best_solutions |-> best_solutions]

StoreBecomes(S) ==
    /\ agent_nodes' = S.agent_nodes
    /\ problem_instances' = S.problem_instances
    /\ all_solutions' = S.all_solutions
    /\ validations' = S.validations
    /\ best_solutions' = S.best_solutions

\* a statement with its parameters, and the thread (0: the web server thread,
\* s: the monitor of submission s) that executes it
Statement(task, op, sub, arg) == [task |-> task, op |-> op, sub |-> sub, arg |-> arg]

\* the effect of one statement on the tables
ApplyStatement(st, S) ==
    LET i == IF st.sub \in DOMAIN S.all_solutions
             THEN S.all_solutions[st.sub].problem_instance_name
             ELSE CHOOSE n \in Instances : TRUE
    IN  CASE st.op = "agent"      -> [S EXCEPT !.agent_nodes = @ \cup {st.arg.id}]
          [] st.op = "submission" -> [S EXCEPT !.all_solutions = Append(@, st.arg)]
          [] st.op = "vote"       -> [S EXCEPT !.validations = @ (+) SetToBag({st.arg})]
          [] st.op = "fallback"   -> [S EXCEPT !.all_solutions[st.sub] = FallbackRow(@)]
          [] st.op = "best"       -> [S EXCEPT !.best_solutions[i] = st.sub]
          [] st.op = "row"        -> [S EXCEPT !.all_solutions[st.sub] = FinalizedRow(@, st.arg)]
          [] st.op = "accrue"     -> [S EXCEPT !.problem_instances[i].reward_accumulated =
                                                    @ + st.arg.reward_accumulated]
          [] st.op = "deactivate" -> [S EXCEPT !.problem_instances[i].active = FALSE]
          [] st.op = "delete"     -> [S EXCEPT !.validations = DeleteRowsOf(@, st.sub)]

RECURSIVE ApplyAll(_, _)
ApplyAll(sts, S) ==
    IF sts = <<>> THEN S ELSE ApplyAll(Tail(sts), ApplyStatement(Head(sts), S))

\* variant: one connection for every thread (self.db_connection of the legacy
\* CentralNode)
get_connection_shared(task) == 0

\* get_connection: the connection stored in thread_local, one per thread
get_connection(task) == task

\* no other connection has a transaction open
LockFree(c) == \A d \in Connections \ {c} : tx[d] = <<>>

\* execute_write with commit=True: the statement is executed and the
\* connection committed (ok), or sqlite3.Error is raised after a rollback
execute_write(task, st, ok) ==
    LET c == get_connection(task) IN
    IF ok
    THEN /\ LockFree(c)
         /\ StoreBecomes(ApplyAll(Append(tx[c], st), Store))
         /\ tx' = [tx EXCEPT ![c] = <<>>]
    ELSE /\ tx' = [tx EXCEPT ![c] = <<>>]
         /\ UNCHANGED store_v

\* register_agent_to_platform with its INSERT as a statement
register_agent_to_platform_tx ==
    /\ req = IdleReq
    /\ agent_counter < MaxAgents
    /\ Load < MaxLoad
    /\ agent_counter' = agent_counter + 1
    /\ LET st == Statement(0, "agent", 0, [id |-> agent_counter + 1]) IN
       \/ /\ execute_write(0, st, TRUE)
          /\ UNCHANGED faults
       \/ /\ MayFail
          /\ faults' = faults + 1
          /\ execute_write(0, st, FALSE)
    /\ UNCHANGED <<now, late, files_v, monitor_v, req>>

\* start_solution_validation_phase with its INSERT as a statement
start_solution_validation_phase_tx ==
    /\ req.op = "upload"
    /\ LET s  == Len(all_solutions) + 1
           st == Statement(0, "submission", s, NewSubmissionRow(req.agent, req.inst))
       IN
       \/ /\ MayFail                       \* INSERT fails
          /\ faults' = faults + 1
          /\ execute_write(0, st, FALSE)
          /\ UNCHANGED <<active_files, pc, late>>
       \/ /\ MayFail                       \* open()/write() fails
          /\ faults' = faults + 1
          /\ execute_write(0, st, TRUE)
          /\ late' = LateAfter(s, req.inst)
          /\ UNCHANGED <<active_files, pc>>
       \/ /\ execute_write(0, st, TRUE)
          /\ late' = LateAfter(s, req.inst)
          /\ active_files' = active_files \cup {s}
          /\ pc' = [pc EXCEPT ![s] = "loop"]
          /\ UNCHANGED faults
    /\ req' = IdleReq
    /\ UNCHANGED <<now, agent_counter, best_file, loc, entered>>

\* register_solution_validation with its INSERT as a statement
register_solution_validation_tx(response, obj) ==
    /\ req.op = "vote"
    /\ LET row == VoteRow(req.sub, all_solutions[req.sub].problem_instance_name,
                          req.agent, response, obj)
           st  == Statement(0, "vote", req.sub, row)
       IN
       IF HasValidated(req.sub, req.agent)
       THEN UNCHANGED <<store_v, tx, faults>>
       ELSE \/ /\ execute_write(0, st, TRUE)
               /\ UNCHANGED faults
            \/ /\ MayFail
               /\ faults' = faults + 1
               /\ execute_write(0, st, FALSE)
    /\ req' = IdleReq
    /\ UNCHANGED <<now, late, agent_counter, files_v, monitor_v>>

\* _manage_validation_phase on the monitor's connection: the UPDATE of the
\* loop body raises every time it is executed and execute_write rolls the
\* connection back
manage_validation_phase_tx(s) ==
    /\ manage_validation_phase(s)
    /\ tx' = IF /\ now < all_solutions[s].validation_end_time
                /\ LoopBudgetReached(all_solutions[s].problem_instance_name)
             THEN [tx EXCEPT ![get_connection(s)] = <<>>]
             ELSE tx

\* the list database_transactions _finalize_validation has queued when it
\* calls execute_transaction, in the order of its appends (400, 411, 419, 434, 449)
database_transactions(s) ==
    (IF loc[s].accepted THEN <<Statement(s, "best", s, loc[s])>> ELSE <<>>)
    \o <<Statement(s, "row", s, loc[s]), Statement(s, "accrue", s, loc[s])>>
    \o (IF loc[s].deactivate THEN <<Statement(s, "deactivate", s, loc[s])>> ELSE <<>>)
    \o <<Statement(s, "delete", s, loc[s])>>

\* the statements thread `task` has executed and not committed
Mine(task) ==
    SelectSeq(tx[get_connection(task)], LAMBDA st : st.task = task)

\* variant: the connection is committed after every statement
commit_after_each(k, n) == k >= 1

\* connection.commit() follows the loop over the operations (line 652): it
\* is reached when k = n statements of the n queued have been executed
commit_after_loop(k, n) == k = n

\* execute_transaction, one iteration of its loop: cursor.execute of the next
\* statement of the list
execute_transaction_statement(s) ==
    /\ pc[s] = "f_commit"
    /\ LET c == get_connection(s)
           q == database_transactions(s)
           k == Len(Mine(s))
       IN  /\ k < Len(q)
           /\ LockFree(c)
           /\ tx' = [tx EXCEPT ![c] = Append(@, q[k + 1])]
    /\ UNCHANGED <<now, late, agents_v, store_v, files_v, monitor_v, req, faults>>

\* execute_transaction, connection.commit(): everything executed on the
\* connection becomes visible; _finalize_validation returns
execute_transaction_commit(s) ==
    /\ pc[s] = "f_commit"
    /\ LET c == get_connection(s) IN
       /\ commit_after_loop(Len(Mine(s)), Len(database_transactions(s)))
       /\ StoreBecomes(ApplyAll(tx[c], Store))
       /\ tx' = [tx EXCEPT ![c] = <<>>]
    /\ StepDone(s)
    /\ UNCHANGED <<now, late, agent_counter, files_v, req, faults, entered>>

\* execute_transaction, lines 653-656: a statement or the commit raises
\* sqlite3.Error; the connection is rolled back and the error raised to
\* _finalize_validation, which logs it (460-461) and returns
execute_transaction_raise(s) ==
    /\ pc[s] = "f_commit"
    /\ MayFail
    /\ faults' = faults + 1
    /\ tx' = [tx EXCEPT ![get_connection(s)] = <<>>]
    /\ StepDone(s)
    /\ UNCHANGED <<now, late, agent_counter, store_v, files_v, req, entered>>

\* lines 464-471 with the deny-by-default UPDATE as a statement.  For the
\* statements and parameters of database_transactions cursor.execute raises
\* nothing but sqlite3.Error, so the handler is not entered from inside
\* execute_transaction.
finalize_fallback_tx(s) ==
    /\ pc[s] \in FallbackPositions
    /\ Mine(s) = <<>>
    /\ MayFail
    /\ faults' = faults + 1
    /\ \E ok \in BOOLEAN :
          execute_write(s, Statement(s, "fallback", s, loc[s]), ok)
    /\ StepDone(s)
    /\ UNCHANGED <<now, late, agent_counter, files_v, req, entered>>

\* the program with every store write as a statement on the connection of
\* the thread that executes it; runs with one submission, or with two
\* submissions of a single agent after which no agent registers
NextTransaction ==
    \/ Tick /\ UNCHANGED outer_v
    \/ Len(all_solutions) < 2 /\ register_agent_to_platform_tx /\ UNCHANGED client_v
    \/ \E a \in AgentIds, i \in Instances :
           /\ all_solutions = <<>> \/ (Len(all_solutions) = 1 /\ agent_counter = 1)
           /\ upload_solution(a, i)
           /\ UNCHANGED outer_v
    \/ start_solution_validation_phase_tx /\ UNCHANGED client_v
    \/ \E s \in SubIds : manage_validation_phase_tx(s) /\ UNCHANGED client_v
    \/ \E s \in SubIds : finalize_read_results(s) /\ UNCHANGED outer_v
    \/ \E s \in SubIds : finalize_save_best(s) /\ UNCHANGED outer_v
    \/ \E s \in SubIds : finalize_check_budget(s) /\ UNCHANGED outer_v
    \/ \E s \in SubIds : execute_transaction_statement(s) /\ UNCHANGED client_v
    \/ \E s \in SubIds : execute_transaction_commit(s) /\ UNCHANGED client_v
    \/ \E s \in SubIds : execute_transaction_raise(s) /\ UNCHANGED client_v
    \/ \E s \in SubIds : finalize_fallback_tx(s) /\ UNCHANGED client_v
    \/ \E a \in AgentIds, s \in SubIds : validate_solution(a, s) /\ UNCHANGED outer_v
    \/ \E response \in BOOLEAN, obj \in Objectives :
           register_solution_validation_tx(response, obj) /\ UNCHANGED client_v

SpecTransaction == Init /\ [][NextTransaction]_vars

\* the tables after the transaction of submission s as _finalize_validation
\* queued it
CommittedStore(s) ==
    LET i == all_solutions[s].problem_instance_name IN
    [Store EXCEPT !.all_solutions[s] = FinalizedRow(@, loc[s]),
                  !.problem_instances[i] = AccruedInstance(@, loc[s]),
                  !.best_solutions = BestAfter(@, i, s, loc[s]),
                  !.validations = DeleteRowsOf(@, s)]

\* C31: while execute_transaction of a submission has executed statements and
\* not left, no step changes the committed tables except its commit, which
\* makes the effects of all queued statements visible together and is taken
\* only after all of them were executed; when it leaves without that (a
\* statement or the commit raised) the tables are as before and the connection
\* holds no uncommitted statement.
C31_TransactionAllOrNothing ==
    [][\A s \in SubIds :
          (pc[s] = "f_commit" /\ Mine(s) # <<>>)
              => \/ /\ Store' = Store
                    /\ pc'[s] = "done" => tx'[get_connection(s)] = <<>>
                 \/ /\ Store' = CommittedStore(s)
                    /\ Mine(s) = database_transactions(s)
                    /\ pc'[s] = "done"
                    /\ tx'[get_connection(s)] = <<>>]_vars

\* C31 witness: a transaction has executed two statements, the tables still
\* show the submission open, and a failure can still occur.
C31_Witness ==
    \E s \in SubIds :
        /\ pc[s] = "f_commit"
        /\ Len(Mine(s)) >= 2
        /\ all_solutions[s].accepted = "unset"
        /\ MayFail

\* the step is one of thread `task` (0: the web server thread)
StepOf(task) ==
    IF task = 0 THEN req' # req \/ agent_counter' # agent_counter
    ELSE pc'[task] # pc[task]

====
